---- MODULE Spec2Model ----
(***************************************************************************)
(* A model of ANT_MNE_python_util.py: ant_mne_dig2mont,                    *)
(* ant_mne_create_montage and ant_mne_create_raw.                          *)
(*                                                                         *)
(* Python strings are sequences of one-character strings, a .csv file is   *)
(* the sequence of its rows, coordinates are integers (millimeters on      *)
(* disk) and a number is the exact quotient [num, den].                    *)
(* Python's None and every object carry a field "py" naming the type.     *)
(***************************************************************************)
EXTENDS Integers, Sequences, FiniteSets, TLC

VARIABLES
    args,    \* the arguments of the call, and what the environment holds
    pc,      \* the statement the call has reached
    fs,      \* the files of set_filepath: path -> content
    raw,     \* the local variable raw of ant_mne_create_raw
    ret,     \* the returned object, None until the call returns
    err,     \* the exception that ended the call, "" while there is none
    montage, \* the local variable montage of ant_mne_create_raw
    calls    \* the calls made so far, in order, with their arguments

vars == <<args, pc, fs, raw, ret, err, montage, calls>>

(***************************************************************************)
(* Bounds of the model.                                                    *)
(***************************************************************************)
\* the .csv files hold NRecords - MaxDelta .. NRecords + MaxDelta rows
MaxDelta == 2
\* the slots 1 .. MaxSlot a landmark row may stand in (or nowhere)
MaxSlot == 4

(***************************************************************************)
(* Constants of the program.                                               *)
(***************************************************************************)
NRecords == 132
NChannels == 129
NLandmarks == 3
NCols == 3
MmPerM == 1000
LastSelection == 131
MajorBound == 0
MinorBound == 19

NoneVal == [py |-> "None"]

(***************************************************************************)
(* Python's str and list operations.                                       *)
(***************************************************************************)
Range(s) == {s[i] : i \in 1..Len(s)}

DigitChars == {"0", "1", "2", "3", "4", "5", "6", "7", "8", "9"}

DigitOf(c) ==
    CASE c = "0" -> 0 [] c = "1" -> 1 [] c = "2" -> 2 [] c = "3" -> 3
      [] c = "4" -> 4 [] c = "5" -> 5 [] c = "6" -> 6 [] c = "7" -> 7
      [] c = "8" -> 8 [] c = "9" -> 9

CharOf(d) ==
    CASE d = 0 -> "0" [] d = 1 -> "1" [] d = 2 -> "2" [] d = 3 -> "3"
      [] d = 4 -> "4" [] d = 5 -> "5" [] d = 6 -> "6" [] d = 7 -> "7"
      [] d = 8 -> "8" [] d = 9 -> "9"

\* the decimal numeral of a natural number
RECURSIVE Numeral(_)
Numeral(n) == IF n < 10 THEN <<CharOf(n)>> ELSE Numeral(n \div 10) \o <<CharOf(n % 10)>>

\* str.strip(chars): every leading and every trailing character that is in chars is removed
RECURSIVE LStrip(_, _)
LStrip(s, chars) ==
    IF s # <<>> /\ Head(s) \in chars THEN LStrip(Tail(s), chars) ELSE s

RECURSIVE RStrip(_, _)
RStrip(s, chars) ==
    IF s # <<>> /\ s[Len(s)] \in chars THEN RStrip(SubSeq(s, 1, Len(s) - 1), chars) ELSE s

PyStrip(s, chars) == RStrip(LStrip(s, chars), chars)

\* str.strip() with no argument removes whitespace; the labels here hold blanks only
Whitespace == {" "}

\* str.split(sep): the pieces between the occurrences of sep, empty pieces kept
RECURSIVE PySplit(_, _)
PySplit(s, sep) ==
    IF \A i \in 1..Len(s) : s[i] # sep
    THEN <<s>>
    ELSE LET k == CHOOSE i \in 1..Len(s) : s[i] = sep /\ \A j \in 1..(i - 1) : s[j] # sep
         IN  <<SubSeq(s, 1, k - 1)>> \o PySplit(SubSeq(s, k + 1, Len(s)), sep)

\* int(x) accepts an optional sign followed by one or more digits (and blanks
\* around them and underscores between them, which no version here holds)
Unsigned(s) == IF s # <<>> /\ Head(s) \in {"+", "-"} THEN Tail(s) ELSE s

IsIntLiteral(s) == Unsigned(s) # <<>> /\ \A i \in 1..Len(Unsigned(s)) : Unsigned(s)[i] \in DigitChars

RECURSIVE DigitsValue(_)
DigitsValue(s) ==
    IF s = <<>> THEN 0 ELSE 10 * DigitsValue(SubSeq(s, 1, Len(s) - 1)) + DigitOf(s[Len(s)])

PyInt(s) == IF Head(s) = "-" THEN 0 - DigitsValue(Tail(s)) ELSE DigitsValue(Unsigned(s))

\* list.index(x): the first position of x (1-based here), 0 where Python raises ValueError
PyIndex(s, x) ==
    IF \E i \in 1..Len(s) : s[i] = x
    THEN CHOOSE i \in 1..Len(s) : s[i] = x /\ \A j \in 1..(i - 1) : s[j] # x
    ELSE 0

\* s[k:] for k >= 0
PyFrom(s, k) == SubSeq(s, k + 1, Len(s))

\* os.path.join of a directory and a relative file name
PathJoin(dir, name) == [dir |-> dir, name |-> name]

(***************************************************************************)
(* The .csv files of the model.                                            *)
(***************************************************************************)
S_nasion == <<"n", "a", "s", "i", "o", "n">>
S_lpa == <<"l", "p", "a">>
S_rpa == <<"r", "p", "a">>
S_Nz == <<"N", "z">>
S_LPA == <<"L", "P", "A">>
S_RPA == <<"R", "P", "A">>

\* the label of the electrode of row i
ElectrodeLabel(i) == <<"E">> \o Numeral(i)

\* the scanner's position of row i, in millimeters
RowXYZ(i) == <<i - 66, 2 * i + 1, 1000 - 7 * i>>

Pad(s, pad) == IF pad THEN <<" ">> \o s \o <<" ">> ELSE s

\* A file of n rows: the landmark rows stand at the rows at[..] (0: the landmark
\* is missing), row dup (if any) repeats the label of the row after it, behind
\* a blank, and with pad the landmark labels are written between blanks.
CsvLabel(i, at, dup, pad) ==
    IF at.nasion = i THEN Pad(S_nasion, pad)
    ELSE IF at.lpa = i THEN Pad(S_lpa, pad)
    ELSE IF at.rpa = i THEN Pad(S_rpa, pad)
    ELSE IF dup = i THEN <<" ">> \o ElectrodeLabel(i + 1)
    ELSE ElectrodeLabel(i)

Csv(n, at, dup, pad) ==
    [i \in 1..n |->
        [labels |-> CsvLabel(i, at, dup, pad),
         X |-> RowXYZ(i)[1], Y |-> RowXYZ(i)[2], Z |-> RowXYZ(i)[3]]]

Slots == 0..MaxSlot

Layouts ==
    {at \in [nasion : Slots, lpa : Slots, rpa : Slots] :
        /\ at.nasion # 0 => at.nasion \notin {at.lpa, at.rpa}
        /\ at.lpa # 0 => at.lpa # at.rpa}

StdLayout == [nasion |-> 1, lpa |-> 2, rpa |-> 3]

RowCounts == {0, 2} \cup ((NRecords - MaxDelta)..(NRecords + MaxDelta))

(***************************************************************************)
(* ant_mne_dig2mont.                                                       *)
(***************************************************************************)
\* the outcome of a call: the returned object or the exception, and the
\* library calls it made
Res(r, e, c) == [ret |-> r, err |-> e, calls |-> c]

\* np.arange(n)
Arange(n) == [i \in 1..n |-> i - 1]

\* montage.selection = np.append(montage.selection, 131)
AppendSelection(selection) == Append(selection, LastSelection)

\* the stack with the two preauricular points exchanged
RowStackSwapped(dig) == dig.elp \o <<dig.nasion, dig.rpa, dig.lpa>>

\* np.row_stack((digmontage.elp, digmontage.nasion, digmontage.lpa, digmontage.rpa))
RowStack(dig) == dig.elp \o <<dig.nasion, dig.lpa, dig.rpa>>

\* montage.pos.shape == (132, 3)
PosShapeOK(pos) == Len(pos) = NRecords /\ \A i \in 1..Len(pos) : Len(pos[i]) = NCols

\* The attributes the function sets, in the order of the code (lines 63 to 78).
Dig2montUpdate(mont, dig, kind) ==
    [mont EXCEPT
        !.kind = kind,
        !.ch_names = dig.point_names \o <<S_Nz, S_LPA, S_RPA>>,
        !.nasion = dig.nasion,
        !.lpa = dig.lpa,
        !.rpa = dig.rpa,
        !.pos = RowStack(dig),
        !.selection = AppendSelection(mont.selection)]

\* all(montage.selection == np.arange(132)): arrays of the same length compare
\* element by element and an array of one element is broadcast; for any other
\* length the comparison itself fails, by a TypeError (all() of the scalar
\* False an older NumPy returns) or by the ValueError a newer NumPy raises.
SelectionCheck(selection, numpy) ==
    IF Len(selection) = NRecords
    THEN IF selection = Arange(NRecords) THEN "" ELSE "AssertionError"
    ELSE IF Len(selection) = 1
    THEN "AssertionError"
    ELSE IF numpy = "old" THEN "TypeError" ELSE "ValueError"

Dig2mont(mont, dig, kind, numpy) ==
    LET m == Dig2montUpdate(mont, dig, kind)
    IN  IF ~PosShapeOK(m.pos)
        THEN Res(NoneVal, "AssertionError", <<>>)
        ELSE IF SelectionCheck(m.selection, numpy) # ""
        THEN Res(NoneVal, SelectionCheck(m.selection, numpy), <<>>)
        ELSE Res(m, "", <<>>)

(***************************************************************************)
(* ant_mne_create_montage.                                                 *)
(***************************************************************************)
\* a number, as the exact quotient num / den
Quot(v, d) == [num |-> v, den |-> d]

\* the number a cell of the file holds
Num(v) == Quot(v, 1)

\* the row as it is, the division forgotten
NotInMeters(p) == p

\* elp[..] / 1000 of one row
InMeters(p) == [j \in 1..Len(p) |-> Quot(p[j].num, p[j].den * MmPerM)]

\* point_names = [x.strip() for x in df.labels.to_numpy()]
PointNames(csv) == [i \in 1..Len(csv) |-> PyStrip(csv[i].labels, Whitespace)]

\* elp = df[['X', 'Y', 'Z']].to_numpy()
Elp(csv) == [i \in 1..Len(csv) |-> <<Num(csv[i].X), Num(csv[i].Y), Num(csv[i].Z)>>]

\* ch_xyz_in_m = elp[3:, :] / 1000
ChXyzInM(elp) == [i \in 1..Len(PyFrom(elp, NLandmarks)) |-> InMeters(PyFrom(elp, NLandmarks)[i])]

\* ch_label = point_names[3:]
ChLabel(point_names) == PyFrom(point_names, NLandmarks)

\* the assertion without the expected count
NewDimsAgree(ch_label, ch_xyz) ==
    /\ Len(ch_label) = Len(ch_xyz)
    /\ \A i \in 1..Len(ch_xyz) : Len(ch_xyz[i]) = NCols

\* the assertion of the new path (line 135)
NewDimsOK(ch_label, ch_xyz) ==
    /\ Len(ch_label) = Len(ch_xyz)
    /\ Len(ch_xyz) = NChannels
    /\ \A i \in 1..Len(ch_xyz) : Len(ch_xyz[i]) = NCols

\* the assertion of the legacy path (line 156)
LegacyDimsOK(point_names, elp) ==
    /\ Len(point_names) = Len(elp)
    /\ Len(elp) = NRecords
    /\ \A i \in 1..Len(elp) : Len(elp[i]) = NCols

\* for x in range(len(ch_label)): ch_pos[ch_label[x]] = ch_xyz_in_m[x, :]
\* The loop assigns in the order of the rows, so the dict ends with one key per
\* distinct label, holding the position of the last row that carries the label.
LastIndex(s, x) == CHOOSE i \in 1..Len(s) : s[i] = x /\ \A j \in (i + 1)..Len(s) : s[j] # x

ChPos(ch_label, ch_xyz) == [k \in Range(ch_label) |-> ch_xyz[LastIndex(ch_label, k)]]

\* mne.channels.make_dig_montage keeps what it is given
MakeDigMontage(ch_pos, nasion, lpa, rpa) ==
    [py |-> "DigMontage", ch_pos |-> ch_pos, nasion |-> nasion, lpa |-> lpa, rpa |-> rpa]

CallMakeDigMontage(ch_pos, nasion, lpa, rpa) ==
    [fn |-> "make_dig_montage", ch_pos |-> ch_pos, nasion |-> nasion, lpa |-> lpa, rpa |-> rpa]

CallReadCsv(fname) == [fn |-> "read_csv", fname |-> fname]

\* the new path (lines 131 to 145)
NewMontage(point_names, elp, pre) ==
    LET ch_xyz == ChXyzInM(elp)
        ch_label == ChLabel(point_names)
        iN == PyIndex(point_names, S_nasion)
        iL == PyIndex(point_names, S_lpa)
        iR == PyIndex(point_names, S_rpa)
    IN  IF ~NewDimsOK(ch_label, ch_xyz)
        THEN Res(NoneVal, "AssertionError", pre)
        ELSE IF iN = 0 \/ iL = 0 \/ iR = 0
        THEN Res(NoneVal, "ValueError", pre)
        ELSE LET ch_pos == ChPos(ch_label, ch_xyz)
                 nasion == InMeters(elp[iN])
                 lpa == InMeters(elp[iL])
                 rpa == InMeters(elp[iR])
             IN  Res(MakeDigMontage(ch_pos, nasion, lpa, rpa), "",
                     Append(pre, CallMakeDigMontage(ch_pos, nasion, lpa, rpa)))

\* A position the toolkit moved into its head coordinate frame, in meters.
HeadFrame(p) == [j \in 1..Len(p) |-> [frame |-> "head", unit |-> "m", axis |-> j, of |-> p]]

\* mne.channels.read_dig_montage(elp, point_names, unit='auto', transform=True)
\* of MNE before 0.19: the three fiducials are looked up by name, taken out
\* of elp and point_names, and every position is moved to the head frame.
Fiducials == {S_nasion, S_lpa, S_rpa}

\* the rows that are not the first row of a fiducial name, in their order
KeptRows(point_names) ==
    LET fid == {PyIndex(point_names, f) : f \in Fiducials}
        IsKept(i) == i \notin fid
    IN  SelectSeq([i \in 1..Len(point_names) |-> i], IsKept)

Masked(s, point_names) ==
    LET keep == KeptRows(point_names)
    IN  [k \in 1..Len(keep) |-> s[keep[k]]]

ReadDigMontage(elp, point_names) ==
    LET kept == Masked(elp, point_names)
    IN  [py |-> "DigMontage",
         elp |-> [i \in 1..Len(kept) |-> HeadFrame(kept[i])],
         point_names |-> Masked(point_names, point_names),
         nasion |-> HeadFrame(elp[PyIndex(point_names, S_nasion)]),
         lpa |-> HeadFrame(elp[PyIndex(point_names, S_lpa)]),
         rpa |-> HeadFrame(elp[PyIndex(point_names, S_rpa)])]

CallReadDigMontage(elp, point_names) ==
    [fn |-> "read_dig_montage", elp |-> elp, point_names |-> point_names,
     unit |-> "auto", transform |-> TRUE]

CallReadMontage == [fn |-> "read_montage", kind |-> "biosemi128"]

KindDuke == "duke129_dig"

\* the legacy path (lines 148 to 176); lib holds what the toolkit answers:
\* whether the two preauricular distances agree to 1e-12 (ppdOK), the template
\* montage read_montage returns (template) and the NumPy in use (numpy)
LegacyMontage(point_names, elp, pre, lib) ==
    IF PyIndex(point_names, S_rpa) = 0 \/ PyIndex(point_names, S_lpa) = 0
    THEN Res(NoneVal, "ValueError", pre)
    ELSE IF ~LegacyDimsOK(point_names, elp)
    THEN Res(NoneVal, "AssertionError", pre)
    ELSE LET c1 == Append(pre, CallReadDigMontage(elp, point_names))
         IN  IF PyIndex(point_names, S_nasion) = 0
             THEN Res(NoneVal, "ValueError", c1)
             ELSE IF ~lib.ppdOK
             THEN Res(NoneVal, "AssertionError", c1)
             ELSE LET c2 == Append(c1, CallReadMontage)
                      r == Dig2mont(lib.template, ReadDigMontage(elp, point_names),
                                    KindDuke, lib.numpy)
                  IN  Res(r.ret, r.err, c2)

\* ant_mne_create_montage(csvfn, dig_filepath, new_MNEv); disk holds the rows
\* of the file (csv) or says that read_csv cannot read it (readable)
CreateMontage(csvfn, dig_filepath, new_MNEv, disk, lib) ==
    LET pre == <<CallReadCsv(PathJoin(dig_filepath, csvfn))>>
    IN  IF ~disk.readable
        THEN Res(NoneVal, "FileNotFoundError", pre)
        ELSE IF new_MNEv
        THEN NewMontage(PointNames(disk.csv), Elp(disk.csv), pre)
        ELSE LegacyMontage(PointNames(disk.csv), Elp(disk.csv), pre, lib)

(***************************************************************************)
(* ant_mne_create_raw, statement by statement.                             *)
(***************************************************************************)
\* mne_version.split('.')
VersionParts(v) == PySplit(v, ".")

\* [int(x) for x in ...] raises ValueError on the first piece that is no integer
VersionParses(v) == \A i \in 1..Len(VersionParts(v)) : IsIntLiteral(VersionParts(v)[i])

VersionN(v) == [i \in 1..Len(VersionParts(v)) |-> PyInt(VersionParts(v)[i])]

\* mne_version_n[0] < 0 and mne_version_n[1] < 19 (line 233); "and" does not
\* evaluate its second operand when the first is false
BranchNeedsMinor(n) == n[1] < MajorBound

TakesLegacy(n) == n[1] < MajorBound /\ n[2] < MinorBound

S_set == <<".", "s", "e", "t">>
S_raw_fif == <<"_", "r", "a", "w", ".", "f", "i", "f">>

\* setfn.strip('.set') + '_raw.fif' (lines 244 and 271)
FifName(setfn) == PyStrip(setfn, Range(S_set)) \o S_raw_fif

FifPath(a) == PathJoin(a.set_filepath, FifName(a.setfn))

Absent == [state |-> "absent"]
OldFile == [state |-> "old"]
Saved(r) == [state |-> "saved", raw |-> r]

\* the flag replaced by a fixed True
AlwaysOverwrite(a) == "True"

\* overwrite=overwrite: the flag is handed to raw.save as it was given
PassedOverwrite(a) == a.overwrite

\* raw.save(fif_fname, overwrite=overwrite): the toolkit refuses to write over
\* an existing file unless overwrite is true
SaveRefused(files, path, overwrite) == files[path] # Absent /\ overwrite # "True"

SaveRaw(files, path, r) == [files EXCEPT ![path] = Saved(r)]

CallCreateMontage(a, new_MNEv) ==
    [fn |-> "ant_mne_create_montage", csvfn |-> a.csvfn, dig_filepath |-> a.dig_filepath,
     new_MNEv |-> new_MNEv]

CallReadRaw(a, m) ==
    [fn |-> "read_raw_eeglab", input_fname |-> PathJoin(a.set_filepath, a.setfn),
     montage |-> m, preload |-> TRUE]

CallPlotSensors == [fn |-> "plot_sensors"]

CallSetMontage(m) == [fn |-> "set_montage", montage |-> m]

CallSave(path, overwrite) == [fn |-> "save", fname |-> path, overwrite |-> overwrite]

RawObject(a, m) == [py |-> "Raw", input_fname |-> PathJoin(a.set_filepath, a.setfn), montage |-> m]

\* the recording with the montage left out
WithoutMontage(r, m) == r

\* raw = raw.set_montage(montage): the recording itself, the montage attached
WithMontage(r, m) == [r EXCEPT !.montage = m]

Raise(e) ==
    /\ err' = e
    /\ pc' = "raised"

\* a version that does not parse is taken for a new one
GetVersionLenient ==
    /\ pc = "start"
    /\ pc' = IF VersionParses(args.mne_version) THEN "branch" ELSE "new_read"
    /\ UNCHANGED <<args, fs, raw, ret, err, montage, calls>>

\* lines 227 and 228
GetVersion ==
    /\ pc = "start"
    /\ IF VersionParses(args.mne_version)
       THEN pc' = "branch" /\ err' = err
       ELSE Raise("ValueError")
    /\ UNCHANGED <<args, fs, raw, ret, montage, calls>>

\* line 233
Branch ==
    /\ pc = "branch"
    /\ LET n == VersionN(args.mne_version)
       IN  IF BranchNeedsMinor(n) /\ Len(n) < 2
           THEN Raise("IndexError")
           ELSE /\ pc' = IF TakesLegacy(n) THEN "legacy_montage" ELSE "new_read"
                /\ err' = err
    /\ UNCHANGED <<args, fs, raw, ret, montage, calls>>

\* what the toolkit may answer on the legacy path of ant_mne_create_montage
Template(sel) ==
    [py |-> "Montage", kind |-> "biosemi128", ch_names |-> <<>>, pos |-> <<>>,
     selection |-> sel, nasion |-> NoneVal, lpa |-> NoneVal, rpa |-> NoneVal]

\* ppdOK: whether the two preauricular distances agree to 1e-12; template: what
\* read_montage returns; numpy: the NumPy in use. An answer that is never
\* asked for is left at its first value.
Libs ==
    {lib \in [ppdOK : BOOLEAN,
              template : {Template(Arange(NRecords - 1)), Template(Arange(NRecords - 2))},
              numpy : {"new", "old"}] :
        /\ ~lib.ppdOK => lib.template = Template(Arange(NRecords - 1))
        /\ lib.template = Template(Arange(NRecords - 1)) => lib.numpy = "new"}

\* the new path asks the toolkit for none of these
NoLib == [ppdOK |-> TRUE, template |-> Template(<<>>), numpy |-> "new"]

\* line 236 or line 261
CreateMontageStep(here, new_MNEv, next) ==
    /\ pc = here
    /\ \E lib \in (IF new_MNEv THEN {NoLib} ELSE Libs) :
        LET r == CreateMontage(args.csvfn, args.dig_filepath, new_MNEv, args.disk, lib)
        IN  /\ calls' = calls \o <<CallCreateMontage(args, new_MNEv)>> \o r.calls
            /\ IF r.err # ""
               THEN Raise(r.err) /\ montage' = montage
               ELSE pc' = next /\ montage' = r.ret /\ err' = err
    /\ UNCHANGED <<args, fs, raw, ret>>

LegacyCreateMontage == CreateMontageStep("legacy_montage", FALSE, "legacy_read")

\* line 240
LegacyReadRaw ==
    /\ pc = "legacy_read"
    /\ calls' = Append(calls, CallReadRaw(args, montage))
    /\ \E readable \in BOOLEAN :
        IF readable
        THEN raw' = RawObject(args, montage) /\ pc' = "legacy_save" /\ err' = err
        ELSE Raise("FileNotFoundError") /\ raw' = raw
    /\ UNCHANGED <<args, fs, ret, montage>>

\* lines 243 to 245, and 270 to 272
SaveStep(here) ==
    /\ pc = here
    /\ IF args.overwrite = "None"
       THEN pc' = "return" /\ UNCHANGED <<fs, err, calls>>
       ELSE /\ calls' = Append(calls, CallSave(FifPath(args), PassedOverwrite(args)))
            /\ IF SaveRefused(fs, FifPath(args), PassedOverwrite(args))
               THEN Raise("FileExistsError") /\ fs' = fs
               ELSE fs' = SaveRaw(fs, FifPath(args), raw) /\ pc' = "return" /\ err' = err
    /\ UNCHANGED <<args, raw, ret, montage>>

LegacySave == SaveStep("legacy_save")

\* lines 251 to 258
NewReadRaw ==
    /\ pc = "new_read"
    /\ \E readable \in BOOLEAN :
        IF readable
        THEN /\ raw' = RawObject(args, NoneVal)
             /\ calls' = calls \o <<CallReadRaw(args, NoneVal), CallPlotSensors>>
             /\ pc' = "new_montage"
             /\ err' = err
        ELSE /\ Raise("FileNotFoundError")
             /\ calls' = Append(calls, CallReadRaw(args, NoneVal))
             /\ raw' = raw
    /\ UNCHANGED <<args, fs, ret, montage>>

\* line 261
NewCreateMontage == CreateMontageStep("new_montage", TRUE, "set_montage")

\* lines 264 to 267; set_montage raises when the montage does not fit the recording
SetMontage ==
    /\ pc = "set_montage"
    /\ \E fits \in BOOLEAN :
        IF fits
        THEN /\ raw' = WithMontage(raw, montage)
             /\ calls' = calls \o <<CallSetMontage(montage), CallPlotSensors>>
             /\ pc' = "new_save"
             /\ err' = err
        ELSE /\ Raise("ValueError")
             /\ calls' = Append(calls, CallSetMontage(montage))
             /\ raw' = raw
    /\ UNCHANGED <<args, fs, ret, montage>>

NewSave == SaveStep("new_save")

\* line 274
Return ==
    /\ pc = "return"
    /\ ret' = raw
    /\ pc' = "done"
    /\ UNCHANGED <<args, fs, raw, err, montage, calls>>

(***************************************************************************)
(* The calls of ant_mne_create_raw the model runs.                         *)
(***************************************************************************)
\* values of mne.__version__: releases before and after 0.19, with two pieces
\* and with three, a single number, and development versions
Versions ==
    {<<"0", ".", "1", "8", ".", "2">>,
     <<"0", ".", "1", "9", ".", "0">>,
     <<"0", ".", "9">>,
     <<"0", ".", "2", "4", ".", "1">>,
     <<"1", ".", "6", ".", "1">>,
     <<"1", ".", "0">>,
     <<"2">>,
     <<"0", ".", "2", "0", ".", "d", "e", "v", "0">>,
     <<"1", ".", "6", ".", "d", "e", "v">>}

\* stems of the .set files: with and without the characters of '.set' at their ends
Stems ==
    {<<"a", "b", "c">>,
     <<"t", "e", "s", "t">>,
     <<"s", "0", "1">>,
     <<"r", "e", "s", "t">>,
     <<".", "a", "1", ".">>,
     <<"e", "e", "g", "_", "s", "u", "b", "1">>}

SetFileNames == {stem \o S_set : stem \in Stems}

\* <stem>_raw.fif of a file name <stem>.set
StemOf(setfn) == SubSeq(setfn, 1, Len(setfn) - Len(S_set))

NamedFif(a) == PathJoin(a.set_filepath, StemOf(a.setfn) \o S_raw_fif)

Disks ==
    {[readable |-> TRUE, csv |-> Csv(NRecords, StdLayout, 0, FALSE)],
     [readable |-> TRUE, csv |-> Csv(NRecords - 1, StdLayout, 0, FALSE)],
     [readable |-> TRUE, csv |-> Csv(NRecords, [StdLayout EXCEPT !.rpa = 0], 0, FALSE)],
     [readable |-> FALSE, csv |-> <<>>]}

RawArgs ==
    [mne_version : Versions, setfn : SetFileNames, set_filepath : {"set_dir"},
     csvfn : {"dig.csv"}, dig_filepath : {"dig_dir"},
     overwrite : {"True", "False", "None"}, disk : Disks]

Init ==
    /\ args \in RawArgs
    /\ pc = "start"
    /\ fs \in [{FifPath(args), NamedFif(args)} -> {Absent, OldFile}]
    /\ raw = NoneVal
    /\ ret = NoneVal
    /\ err = ""
    /\ montage = NoneVal
    /\ calls = <<>>

\* No version MNE publishes has a negative first number, so line 233 sends no
\* run to the legacy statements (lines 235 to 245): LegacyCreateMontage,
\* LegacyReadRaw and LegacySave are never enabled and are left out of Next.
Next ==
    \/ GetVersion
    \/ Branch
    \/ NewReadRaw
    \/ NewCreateMontage
    \/ SetMontage
    \/ NewSave
    \/ Return

Spec == Init /\ [][Next]_vars

(***************************************************************************)
(* Calls of ant_mne_create_montage alone.                                  *)
(***************************************************************************)
DupSlots == {0, MaxSlot + 1}

MontageDisks ==
    {[readable |-> TRUE, csv |-> Csv(n, at, dup, pad)] :
        n \in RowCounts, at \in Layouts, dup \in DupSlots, pad \in BOOLEAN}
    \cup {[readable |-> FALSE, csv |-> <<>>]}

MontageArgs ==
    [csvfn : {"dig.csv"}, dig_filepath : {"dig_dir"}, new_MNEv : BOOLEAN, disk : MontageDisks]

InitMontage ==
    /\ args \in MontageArgs
    /\ pc = "call"
    /\ fs = <<>>
    /\ raw = NoneVal
    /\ ret = NoneVal
    /\ err = ""
    /\ montage = NoneVal
    /\ calls = <<>>

\* the whole of ant_mne_create_montage (lines 109 to 178)
CallOfCreateMontage ==
    /\ pc = "call"
    /\ \E lib \in (IF args.new_MNEv THEN {NoLib} ELSE Libs) :
        LET r == CreateMontage(args.csvfn, args.dig_filepath, args.new_MNEv, args.disk, lib)
        IN  /\ calls' = r.calls
            /\ ret' = r.ret
            /\ err' = r.err
            /\ pc' = IF r.err = "" THEN "done" ELSE "raised"
    /\ UNCHANGED <<args, fs, raw, montage>>

NextMontage == CallOfCreateMontage

SpecMontage == InitMontage /\ [][NextMontage]_vars

(***************************************************************************)
(* Calls of ant_mne_dig2mont alone.                                        *)
(***************************************************************************)
\* a template montage as read_montage builds it: names, positions and a
\* selection vector, here of any of the lengths around the 131 of biosemi128
TemplateOf(sel) ==
    [Template(sel) EXCEPT
        !.ch_names = [i \in 1..Len(sel) |-> <<"T">> \o Numeral(i)],
        !.pos = [i \in 1..Len(sel) |-> <<0, 0, i>>]]

\* Arange(n) with its first two entries exchanged
Swapped(n) == [i \in 1..n |-> IF i = 1 THEN 1 ELSE IF i = 2 THEN 0 ELSE i - 1]

Selections ==
    {Arange(m) : m \in (NRecords - 1 - MaxDelta)..(NRecords - 1 + MaxDelta)}
    \cup {<<>>, Swapped(NRecords - 1), Arange(NRecords)}

DigMontageOf(k, kn) ==
    [py |-> "DigMontage",
     elp |-> [i \in 1..k |-> HeadFrame(RowXYZ(i))],
     point_names |-> [i \in 1..kn |-> ElectrodeLabel(i)],
     nasion |-> HeadFrame(<<0, 90, 0>>),
     lpa |-> HeadFrame(<<0 - 70, 0, 0>>),
     rpa |-> HeadFrame(<<70, 0, 0>>)]

DigMontages ==
    {DigMontageOf(k, kn) :
        k \in (NChannels - MaxDelta)..(NChannels + MaxDelta),
        kn \in {NChannels - 1, NChannels, NRecords}}

Dig2montArgs ==
    [montage : {TemplateOf(sel) : sel \in Selections}, digmontage : DigMontages,
     kind : {KindDuke, "other_kind"}]

InitDig2mont ==
    /\ args \in Dig2montArgs
    /\ pc = "call"
    /\ fs = <<>>
    /\ raw = NoneVal
    /\ ret = NoneVal
    /\ err = ""
    /\ montage = NoneVal
    /\ calls = <<>>

\* the whole of ant_mne_dig2mont (lines 60 to 84)
CallOfDig2mont ==
    /\ pc = "call"
    /\ \E numpy \in {"old", "new"} :
        LET r == Dig2mont(args.montage, args.digmontage, args.kind, numpy)
        IN  /\ ret' = r.ret
            /\ err' = r.err
            /\ pc' = IF r.err = "" THEN "done" ELSE "raised"
    /\ UNCHANGED <<args, fs, raw, montage, calls>>

NextDig2mont == CallOfDig2mont

SpecDig2mont == InitDig2mont /\ [][NextDig2mont]_vars

(***************************************************************************)
(* The claims.                                                             *)
(***************************************************************************)
Returned == pc = "done"
Raised == pc = "raised"
LegacyPcs == {"legacy_montage", "legacy_read", "legacy_save"}
NewPcs == {"new_read", "new_montage", "set_montage", "new_save"}
CallsOf(f) == {i \in 1..Len(calls) : calls[i].fn = f}
NoFileSaved == \A p \in DOMAIN fs : fs[p].state # "saved"

\* the version has at least two pieces, all of them integers
TwoNumericParts(v) == VersionParses(v) /\ Len(VersionParts(v)) >= 2

\* the version (major, minor) is prior to 0.19
Prior019(v) == VersionN(v)[1] < 0 \/ (VersionN(v)[1] = 0 /\ VersionN(v)[2] < 19)

\* C1: ant_mne_create_raw takes the legacy call sequence for every version
\* prior to 0.19 and the new call sequence for every version 0.19 or later.
C1_BranchOnVersion ==
    TwoNumericParts(args.mne_version) =>
        /\ pc \in LegacyPcs => Prior019(args.mne_version)
        /\ pc \in NewPcs => ~Prior019(args.mne_version)

\* C2: the file ant_mne_create_raw saves for an input <stem>.set is
\* <stem>_raw.fif in set_filepath, the stem kept character for character.
C2_SavedAsStemRawFif ==
    \A p \in DOMAIN fs : fs[p].state = "saved" => p = NamedFif(args)

\* the rows of the .csv file and their labels, blanks stripped
CsvRows == args.disk.csv
RecordCount == Len(CsvRows)
LabelOfRow(i) == PyStrip(CsvRows[i].labels, Whitespace)
RowsLabelled(k) == {i \in 1..RecordCount : LabelOfRow(i) = k}
DataRows == {i \in 1..RecordCount : i > 3}

\* the position of a row in meters: its millimeters over 1000
MetersOf(row) ==
    <<[num |-> row.X, den |-> 1000], [num |-> row.Y, den |-> 1000], [num |-> row.Z, den |-> 1000]>>

\* the position of a row as the file holds it, in millimeters
MillimetersOf(row) ==
    <<[num |-> row.X, den |-> 1], [num |-> row.Y, den |-> 1], [num |-> row.Z, den |-> 1]>>

\* C3, as the claim states it: a montage is returned only for 132 records, and
\* every other record count ends, on both paths, in an assertion error.
C3_OtherCountAsserts ==
    /\ Returned => RecordCount = 132 /\ ret.py # "None"
    /\ (pc # "call" /\ args.disk.readable /\ RecordCount # 132) =>
            Raised /\ ret = NoneVal /\ err = "AssertionError"

\* C3, amended: a montage is returned only for 132 records; every other record
\* count ends in an exception and returns nothing: in an assertion error on
\* the new path, and on the legacy path when the file has a row labelled rpa
\* and one labelled lpa, and otherwise, on the legacy path, in the ValueError
\* of the landmark lookup that precedes the assertion.
C3_OtherCountRaises ==
    /\ Returned => RecordCount = 132 /\ ret.py # "None"
    /\ (pc # "call" /\ args.disk.readable /\ RecordCount # 132) =>
            /\ Raised
            /\ ret = NoneVal
            /\ err = IF args.new_MNEv \/ (RowsLabelled(S_rpa) # {} /\ RowsLabelled(S_lpa) # {})
                     THEN "AssertionError"
                     ELSE "ValueError"

C3_Witness ==
    /\ Raised
    /\ args.disk.readable
    /\ RecordCount = 131
    /\ ~args.new_MNEv
    /\ err = "ValueError"

\* C6: on the new path none of the labels nasion, lpa and rpa is a key of the
\* ch_pos handed to make_dig_montage, wherever their rows stand in the file.
C6_NoLandmarkInChPos ==
    \A i \in CallsOf("make_dig_montage") :
        (DOMAIN calls[i].ch_pos) \cap {S_nasion, S_lpa, S_rpa} = {}

\* what the claims say of a call of make_dig_montage: every channel position
\* and the three landmark positions are rows of the file, in meters
NewPathInMeters(c) ==
    /\ \A k \in DOMAIN c.ch_pos :
            \E i \in RowsLabelled(k) \cap DataRows : c.ch_pos[k] = MetersOf(CsvRows[i])
    /\ \E i \in RowsLabelled(S_nasion) : c.nasion = MetersOf(CsvRows[i])
    /\ \E i \in RowsLabelled(S_lpa) : c.lpa = MetersOf(CsvRows[i])
    /\ \E i \in RowsLabelled(S_rpa) : c.rpa = MetersOf(CsvRows[i])

\* C7, as the claim states it: every coordinate handed to the toolkit is the
\* millimeter value of the file divided by 1000, on the new path and on the
\* legacy path (read_dig_montage) alike.
C7_MetersOnBothPaths ==
    /\ \A i \in CallsOf("make_dig_montage") : NewPathInMeters(calls[i])
    /\ \A i \in CallsOf("read_dig_montage") :
            calls[i].elp = [r \in 1..RecordCount |-> MetersOf(CsvRows[r])]

\* C7, amended: on the new path every coordinate handed to make_dig_montage is
\* the millimeter value of the file divided by 1000; on the legacy path the
\* positions are handed to read_dig_montage as they are in the file, in
\* millimeters, with unit='auto', and the toolkit does the conversion.
C7_MetersOnNewPath ==
    /\ \A i \in CallsOf("make_dig_montage") : NewPathInMeters(calls[i])
    /\ \A i \in CallsOf("read_dig_montage") :
            /\ calls[i].elp = [r \in 1..RecordCount |-> MillimetersOf(CsvRows[r])]
            /\ calls[i].unit = "auto"

C7_Witness ==
    /\ Returned
    /\ ~args.new_MNEv
    /\ CallsOf("read_dig_montage") # {}
    /\ ret.py = "Montage"

\* C8: on the new path ch_pos has exactly 129 entries, one per data-channel
\* row, each label mapped to the position of its own row, also when two rows
\* carry the same label after stripping.
C8_OneEntryPerRow ==
    \A i \in CallsOf("make_dig_montage") :
        /\ Cardinality(DOMAIN calls[i].ch_pos) = 129
        /\ \A r \in DataRows : calls[i].ch_pos[LabelOfRow(r)] = MetersOf(CsvRows[r])

\* what ant_mne_dig2mont is given, and what it would build
GivenElp == args.digmontage.elp
GivenNames == args.digmontage.point_names
GivenSelection == args.montage.selection
WouldBeOff ==
    \/ Len(GivenElp) + 3 # 132
    \/ Append(GivenSelection, 131) # [i \in 1..132 |-> i - 1]

ReturnedConsistent ==
    Returned =>
        /\ Len(ret.pos) = 132
        /\ ret.pos = GivenElp \o <<args.digmontage.nasion, args.digmontage.lpa, args.digmontage.rpa>>
        /\ ret.selection = [i \in 1..132 |-> i - 1]
        /\ Len(GivenNames) = Len(GivenElp) =>
                /\ Len(ret.ch_names) = 132
                /\ ret.ch_names = GivenNames \o <<S_Nz, S_LPA, S_RPA>>

\* C9, as the claim states it: a returned montage has 132 positions (elp, then
\* nasion, lpa, rpa), 132 names and the selection 0..131, and any input that
\* would give another position count or selection aborts with an assertion
\* error.
C9_OffInputAsserts ==
    /\ ReturnedConsistent
    /\ (pc # "call" /\ WouldBeOff) => Raised /\ err = "AssertionError"

\* C9, amended: a returned montage is as the claim says; any input that would
\* give another position count or selection does not return: it ends in an
\* assertion error when the position count is not 132 or when the selection,
\* of 132 entries or of one, is not 0..131, and in the TypeError or ValueError
\* of the comparison itself when the selection has any other length.
C9_OffInputRaises ==
    /\ ReturnedConsistent
    /\ (pc # "call" /\ WouldBeOff) =>
            /\ Raised
            /\ ret = NoneVal
            /\ IF Len(GivenElp) + 3 # 132 \/ Len(GivenSelection) + 1 \in {1, 132}
               THEN err = "AssertionError"
               ELSE err \in {"TypeError", "ValueError"}

C9_Witness ==
    /\ Raised
    /\ Len(GivenElp) = 129
    /\ Len(GivenSelection) = 130
    /\ err = "TypeError"

SaveCalls == CallsOf("save")

\* C4: an existing output file is replaced only if overwrite is true; with
\* overwrite false an existing file is left unchanged and the save is refused;
\* with overwrite None no save is attempted and the Raw object is returned.
C4_OverwriteFlag ==
    [][/\ args.overwrite # "True" =>
            \A p \in DOMAIN fs : fs[p] # Absent => fs'[p] = fs[p]
       /\ (args.overwrite = "False" /\ pc = "new_save" /\ fs[FifPath(args)] # Absent) =>
            pc' = "raised" /\ err' = "FileExistsError" /\ fs' = fs
       /\ args.overwrite = "None" =>
            /\ fs' = fs
            /\ {i \in 1..Len(calls') : calls'[i].fn = "save"} = {}
            /\ pc = "new_save" => pc' = "return"
       /\ pc = "return" => pc' = "done" /\ ret' = raw /\ ret'.py = "Raw"
      ]_vars

C4_Witness ==
    /\ Raised
    /\ err = "FileExistsError"
    /\ args.overwrite = "False"
    /\ fs[FifPath(args)] = OldFile

\* C5: the output file is written only after the montage was created and
\* attached to the recording (read .set, create montage, attach, save); a run
\* that an assertion or a library call ends writes or changes no output file
\* and returns no Raw object.
C5_SaveIsLast ==
    /\ \A p \in DOMAIN fs : fs[p].state = "saved" =>
            /\ fs[p].raw.py = "Raw"
            /\ fs[p].raw.montage.py = "DigMontage"
    /\ \A k \in SaveCalls :
            \E i, j, m \in 1..(k - 1) :
                /\ i < j /\ j < m
                /\ calls[i].fn = "read_raw_eeglab"
                /\ calls[j].fn = "ant_mne_create_montage"
                /\ calls[m].fn = "set_montage"
    /\ err # "" => Raised /\ ret = NoneVal /\ NoFileSaved
    /\ Returned => err = ""

C5_Witness ==
    /\ Raised
    /\ err = "AssertionError"
    /\ raw.py = "Raw"
    /\ args.overwrite = "True"
    /\ fs[FifPath(args)] = OldFile

\* a piece of the version that int() does not take
NonIntegerPart(v) == \E i \in 1..Len(VersionParts(v)) : ~IsIntLiteral(VersionParts(v)[i])

LegacyTaken ==
    \/ pc \in LegacyPcs
    \/ \E i \in CallsOf("ant_mne_create_montage") : ~calls[i].new_MNEv
    \/ \E i \in CallsOf("read_raw_eeglab") : calls[i].montage # NoneVal

NewTaken ==
    \/ pc \in NewPcs
    \/ \E i \in CallsOf("ant_mne_create_montage") : calls[i].new_MNEv
    \/ \E i \in CallsOf("read_raw_eeglab") : calls[i].montage = NoneVal

\* C10: the version is detected before any file is read or written: a version
\* with a piece that is no integer ends the run in an error with no .set or
\* .csv file read and no output file written; a version of at least two
\* numeric pieces parses, and exactly one of the two call sequences is taken.
C10_VersionFirst ==
    /\ pc \in {"start", "branch"} => calls = <<>> /\ NoFileSaved
    /\ NonIntegerPart(args.mne_version) =>
            /\ pc \in {"start", "raised"}
            /\ Raised => err = "ValueError" /\ calls = <<>> /\ NoFileSaved /\ ret = NoneVal
    /\ TwoNumericParts(args.mne_version) =>
            /\ ~(Raised /\ calls = <<>>)
            /\ pc \notin {"start", "branch"} => (LegacyTaken # NewTaken)

C10_Witness ==
    /\ Raised
    /\ NonIntegerPart(args.mne_version)
    /\ err = "ValueError"

====
